---- MODULE Spec2Model ----
(***************************************************************************)
(* Model of the GitHub webhook path of the dashboard backend               *)
(* (backend/lib/github/webhook/handler.js) together with the journal cache *)
(* and the journals service it drives.  Node.js runs every callback to     *)
(* completion, so each callback (the webhook route, a nextTick callback,   *)
(* the completion of an upstream fetch) is one action.                     *)
(***************************************************************************)
EXTENDS Integers, Sequences, FiniteSets, TLC

\* The field names of the records of the model.  Every record below is written
\* with its fields in this order.
Fields ==
    DOMAIN [action |-> 0, body |-> 0, comment |-> 0, comments |-> 0, crashed |-> 0,
            data |-> 0, empty |-> 0, event |-> 0, fetches |-> 0, headers |-> 0,
            id |-> 0, issue |-> 0, issues |-> 0, kind |-> 0, list |-> 0,
            metadata |-> 0,
            name |-> 0, namespace |-> 0, number |-> 0, object |-> 0, op |-> 0,
            raw |-> 0, req |-> 0, signature |-> 0, status |-> 0, thrown |-> 0,
            ticks |-> 0,
            title |-> 0, trace |-> 0, type |-> 0, undefined |-> 0]

VARIABLES
    webhookSecret,  \* config.gitHub.webhookSecret ("" when not configured)
    issues,         \* journal cache: the cached Issue records
    comments,       \* journal cache: the cached Comment records
    ticks,          \* process.nextTick queue: issues awaiting updateCommentsForIssue
    fetches,        \* upstream comment fetches in flight (issue numbers)
    load,           \* loadOpenIssues: "idle" or "fetching"
    crashed,        \* an exception escaped a nextTick callback
    subscriber,     \* the listener on the cache's emitter: "ok" or "throws"
    last            \* the callback that ran last: request, response, trace

vars == <<webhookSecret, issues, comments, ticks, fetches, load, crashed, subscriber, last>>

----------------------------------------------------------------------------
(* Bounds of the model *)

MaxNumber == 2          \* issue numbers 1..MaxNumber
MaxCommentId == 1       \* comment ids 1..MaxCommentId
MaxFetches == 1         \* comment fetches in flight at a time
HexLen == 4             \* hex digits kept of a digest

Numbers == 1 .. MaxNumber
CommentIds == 1 .. MaxCommentId
IssueBodies == {"b1", "b2"}
CommentBodies == {"c1", "c2"}
CommentCounts == {0, 1}
Secrets == {"k1", "k2"}
NotConfigured == ""
TrackedTitle == "[garden/foo] bug"
UntrackedTitle == "bug"

\* JavaScript's undefined, and the empty object literal {}
Undefined == [undefined |-> TRUE]
EmptyObject == [empty |-> TRUE]

----------------------------------------------------------------------------
(* Wire payloads (GitHub JSON) *)

\* Issue 1 comes in every variant (and once without a tracked resource in its
\* title); the further issues in one variant each.
WireIssues ==
    [body : IssueBodies, comments : CommentCounts, number : {1}, title : {TrackedTitle}]
    \cup [body : {"b1"}, comments : {1}, number : {1}, title : {UntrackedTitle}]
    \cup [body : {"b1"}, comments : {0}, number : Numbers \ {1}, title : {TrackedTitle}]

WireComments == [body : CommentBodies, id : CommentIds]

\* handleIssue tells closed and reopened from every other action (opened,
\* edited, labeled, ...); edited stands for those.
IssueActions == {"edited", "closed", "reopened"}
CommentActions == {"edited", "deleted", "reopened"}

\* The JSON bodies GitHub sends: issues events carry an issue, issue_comment
\* events an issue (here issue 1) and a comment, other events (ping) neither.
IssuesPayloads == [action : IssueActions, comment : {Undefined}, issue : WireIssues]
CommentPayloads ==
    [action : CommentActions, comment : WireComments,
     issue : {w \in WireIssues : w.number = 1}]
OtherPayloads == [action : {"edited"}, comment : {Undefined}, issue : {Undefined}]
Payloads == IssuesPayloads \cup CommentPayloads \cup OtherPayloads

----------------------------------------------------------------------------
(* Request bodies and signatures.  Strings that are compared byte-wise are  *)
(* sequences of character codes.                                            *)

IndexOf(seq, x) == CHOOSE i \in 1 .. Len(seq) : seq[i] = x

ActionOrder == <<"edited", "closed", "reopened", "deleted">>
TitleOrder == <<TrackedTitle, UntrackedTitle>>
IssueBodyOrder == <<"b1", "b2">>
CommentBodyOrder == <<"c1", "c2">>
SecretOrder == <<"k1", "k2">>

\* JSON.stringify of a payload: the field values in source order.
Stringify(payload) == <<payload.action, payload.issue, payload.comment>>

\* The JSON body parser of the route: req.body of a raw body.
ParseJson(raw) == [action |-> raw[1], comment |-> raw[3], issue |-> raw[2]]

RawBodies == {Stringify(p) : p \in Payloads}

\* Distinct numbers for distinct raw bodies (mixed radix over the fields).
IssueRadix == 1 + (MaxNumber + 1) * 8
CommentRadix == 1 + (MaxCommentId + 1) * 2
IssueCode(issue) ==
    IF issue = Undefined THEN 0
    ELSE 1 + ((issue.number - 1) * 2 + (IndexOf(TitleOrder, issue.title) - 1)) * 4
           + (IndexOf(IssueBodyOrder, issue.body) - 1) * 2 + issue.comments
CommentCode(comment) ==
    IF comment = Undefined THEN 0
    ELSE 1 + (comment.id - 1) * 2 + (IndexOf(CommentBodyOrder, comment.body) - 1)
BodyCode(raw) ==
    ((IndexOf(ActionOrder, raw[1]) - 1) * IssueRadix + IssueCode(raw[2])) * CommentRadix
        + CommentCode(raw[3])
BodyRadix == 4 * IssueRadix * CommentRadix

RECURSIVE Pow(_, _)
Pow(b, e) == IF e = 0 THEN 1 ELSE b * Pow(b, e - 1)

\* createHmac('sha1', secret).update(value): the digest as a number of HexLen
\* hex digits; distinct (secret, value) pairs of the model get distinct digests.
HmacSha1(secret, value) ==
    (1 + (IndexOf(SecretOrder, secret) - 1) * BodyRadix + BodyCode(value)) % Pow(16, HexLen)

\* .digest('hex'): HexLen lower-case hex digits, as character codes.
HexDigit(d) == IF d < 10 THEN 48 + d ELSE 87 + d
RECURSIVE HexDigits(_, _)
HexDigits(n, len) ==
    IF len = 0 THEN <<>> ELSE Append(HexDigits(n \div 16, len - 1), HexDigit(n % 16))
HexDigest(n) == HexDigits(n, HexLen)

\* Buffer.from('73686131', 'hex').toString('ascii'), i.e. "sha1"
hubSignatureAlgorithm == <<115, 104, 97, 49>>

createHubSignature(secret, value) ==
    hubSignatureAlgorithm \o <<61>> \o HexDigest(HmacSha1(secret, value))

\* Buffer.from(s, 'ascii'): one byte per character, its code modulo 256.
BufferFromAscii(s) == [i \in 1 .. Len(s) |-> s[i] % 256]

\* crypto.timingSafeEqual on two buffers of the same length.
timingSafeEqual(a, b) == \A i \in 1 .. Len(a) : a[i] = b[i]

\* Mutant: the lengths are not compared, the common prefix is.
digestsEqual_NoLength(a, b) ==
    LET ba == BufferFromAscii(a)
        bb == BufferFromAscii(b)
    IN  \A i \in 1 .. (IF Len(ba) < Len(bb) THEN Len(ba) ELSE Len(bb)) : ba[i] = bb[i]

digestsEqual(a, b) ==
    LET ba == BufferFromAscii(a)
        bb == BufferFromAscii(b)
    IN  Len(ba) = Len(bb) /\ timingSafeEqual(ba, bb)

\* Mutant: the signature is computed but never compared with the header.
verifyHubSignature_NoCompare(req, body) ==
    IF webhookSecret = NotConfigured THEN "InternalServerError"
    ELSE IF req.headers.signature = <<>> THEN "Forbidden"
    ELSE "ok"

\* Mutant: the header is looked at before the secret.
verifyHubSignature_HeaderFirst(req, body) ==
    IF req.headers.signature = <<>> THEN "Forbidden"
    ELSE IF webhookSecret = NotConfigured THEN "InternalServerError"
    ELSE IF ~digestsEqual(req.headers.signature, createHubSignature(webhookSecret, body))
         THEN "Forbidden"
    ELSE "ok"

\* The outcome of verifyHubSignature: "ok", or the error class it throws.
verifyHubSignature(req, body) ==
    IF webhookSecret = NotConfigured THEN "InternalServerError"
    ELSE LET requestSignature == req.headers.signature
         IN  IF requestSignature = <<>> THEN "Forbidden"
             ELSE IF ~digestsEqual(requestSignature, createHubSignature(webhookSecret, body))
                  THEN "Forbidden"
             ELSE "ok"


----------------------------------------------------------------------------
(* Event translator (services/journals): wire payloads to domain records *)

UndefinedNumber == 0
UndefinedString == "undefined"

\* The tracked resource named in the issue title, if any.
fromIssue(wire) ==
    IF wire.title = TrackedTitle
    THEN [data |-> [body |-> wire.body, comments |-> wire.comments],
          metadata |-> [name |-> "foo", namespace |-> "garden", number |-> wire.number]]
    ELSE Undefined

fromComment(issueNumber, namespace, name, wire) ==
    [data |-> [body |-> wire.body],
     metadata |-> [id |-> wire.id, number |-> issueNumber]]

Issues == {fromIssue(w) : w \in {x \in WireIssues : x.title = TrackedTitle}}
Comments == {fromComment(n, "garden", "foo", w) : n \in Numbers, w \in WireComments}

----------------------------------------------------------------------------
(* Journal cache.  An operation takes and returns the context of the        *)
(* running callback: the cache contents, the nextTick queue and the trace   *)
(* of what the callback has emitted and sent so far, in order.              *)

Entry(kind, type, object) == [kind |-> kind, object |-> object, type |-> type]

Emit(c, kind, type, object) ==
    [c EXCEPT !.trace = Append(@, Entry(kind, type, object))]

\* Mutant: the listener's exception leaves the emitter and the cache operation.
Notify_Propagates(c, kind, type, object) ==
    IF subscriber = "throws"
    THEN [Emit(c, kind, type, object) EXCEPT !.thrown = TRUE]
    ELSE Emit(c, kind, type, object)

\* The change event of a mutation that has been applied. A listener that
\* throws is logged and does not interrupt the operation.
Notify(c, kind, type, object) ==
    IF subscriber = "throws"
    THEN Emit(Emit(c, kind, type, object), "log", "subscriber", object)
    ELSE Emit(c, kind, type, object)

HasKey(issue) == issue # Undefined /\ issue # EmptyObject

IssueKey(issue) ==
    <<issue.metadata.namespace, issue.metadata.name, issue.metadata.number>>

CommentKey(issueNumber, comment) == <<issueNumber, comment.metadata.id>>

StoredIssues(c, issue) == {i \in c.issues : IssueKey(i) = IssueKey(issue)}

StoredComments(c, issueNumber, comment) ==
    {k \in c.comments :
        CommentKey(k.metadata.number, k) = CommentKey(issueNumber, comment)}

getIssues == issues

\* Mutant: a present key is always reported as modified, equal record or not.
addOrUpdateIssue_AlwaysModified(c, issue) ==
    IF ~HasKey(issue) THEN c
    ELSE LET stored == StoredIssues(c, issue)
         IN  IF stored = {}
             THEN Notify([c EXCEPT !.issues = @ \cup {issue}], "issue", "ADDED", issue)
             ELSE Notify([c EXCEPT !.issues = (@ \ stored) \cup {issue}],
                         "issue", "MODIFIED", issue)

addOrUpdateIssue(c, issue) ==
    IF ~HasKey(issue) THEN c
    ELSE LET stored == StoredIssues(c, issue)
         IN  IF stored = {}
             THEN Notify([c EXCEPT !.issues = @ \cup {issue}], "issue", "ADDED", issue)
             ELSE IF stored = {issue} THEN c
             ELSE Notify([c EXCEPT !.issues = (@ \ stored) \cup {issue}],
                         "issue", "MODIFIED", issue)

removeIssue(c, issue) ==
    IF ~HasKey(issue) THEN c
    ELSE LET stored == StoredIssues(c, issue)
         IN  IF stored = {} THEN c
             ELSE Notify([c EXCEPT !.issues = @ \ stored],
                         "issue", "DELETED", CHOOSE i \in stored : TRUE)

\* Mutant: an update of a cached comment replaces it without an event.
addOrUpdateComment_SilentUpdate(c, issueNumber, comment) ==
    IF issueNumber = UndefinedNumber THEN c
    ELSE LET stored == StoredComments(c, issueNumber, comment)
         IN  IF stored = {}
             THEN Notify([c EXCEPT !.comments = @ \cup {comment}], "comment", "ADDED", comment)
             ELSE [c EXCEPT !.comments = (@ \ stored) \cup {comment}]

addOrUpdateComment(c, issueNumber, comment) ==
    IF issueNumber = UndefinedNumber THEN c
    ELSE LET stored == StoredComments(c, issueNumber, comment)
         IN  IF stored = {}
             THEN Notify([c EXCEPT !.comments = @ \cup {comment}], "comment", "ADDED", comment)
             ELSE IF stored = {comment} THEN c
             ELSE Notify([c EXCEPT !.comments = (@ \ stored) \cup {comment}],
                         "comment", "MODIFIED", comment)

removeComment(c, issueNumber, comment) ==
    IF issueNumber = UndefinedNumber THEN c
    ELSE LET stored == StoredComments(c, issueNumber, comment)
         IN  IF stored = {} THEN c
             ELSE Notify([c EXCEPT !.comments = @ \ stored],
                         "comment", "DELETED", CHOOSE k \in stored : TRUE)

reset(c) == [c EXCEPT !.issues = {}, !.comments = {}]

----------------------------------------------------------------------------
(* Webhook handler (lib/github/webhook/handler.js) *)

\* Mutant: the comments are fetched whatever the issue's comment count.
updateCommentsForIssue_NoCountCheck(c, issue) ==
    IF issue = Undefined THEN [c EXCEPT !.crashed = TRUE]
    ELSE Emit([c EXCEPT !.fetches = Append(@, issue.metadata.number)],
              "fetch", "comments", [number |-> issue.metadata.number])

\* The destructuring of an undefined issue throws a TypeError, which nothing
\* catches inside a nextTick callback.
updateCommentsForIssue(c, issue) ==
    IF issue = Undefined THEN [c EXCEPT !.crashed = TRUE]
    ELSE LET numberOfComments == issue.data.comments
             number == issue.metadata.number
         IN  IF numberOfComments > 0
             THEN Emit([c EXCEPT !.fetches = Append(@, number)],
                       "fetch", "comments", [number |-> number])
             ELSE c

\* Mutant: the closed branch does not return and falls through to the upsert.
handleIssue_NoReturn(c, action, wireIssue) ==
    LET issue == fromIssue(wireIssue)
        c0 == IF action = "closed" THEN removeIssue(c, issue) ELSE c
        c1 == addOrUpdateIssue(c0, issue)
    IN  IF action = "reopened" THEN [c1 EXCEPT !.ticks = Append(@, issue)] ELSE c1

\* Mutant: the cached record is removed before the upsert, so an update is
\* reported as a removal and an addition.
handleIssue_RemoveBeforeUpsert(c, action, wireIssue) ==
    LET issue == fromIssue(wireIssue)
        c1 == addOrUpdateIssue(removeIssue(c, issue), issue)
    IN  IF action = "closed" THEN removeIssue(c, issue)
        ELSE IF action = "reopened" THEN [c1 EXCEPT !.ticks = Append(@, issue)]
        ELSE c1

\* Mutant: a reopened issue only gets its backfill scheduled, not upserted.
handleIssue_NoUpsertOnReopen(c, action, wireIssue) ==
    LET issue == fromIssue(wireIssue)
    IN  IF action = "closed" THEN removeIssue(c, issue)
        ELSE IF action = "reopened" THEN [c EXCEPT !.ticks = Append(@, issue)]
        ELSE addOrUpdateIssue(c, issue)

\* Mutant: the backfill is called directly instead of through process.nextTick.
handleIssue_SyncBackfill(c, action, wireIssue) ==
    LET issue == fromIssue(wireIssue)
    IN  IF action = "closed" THEN removeIssue(c, issue)
        ELSE LET c1 == addOrUpdateIssue(c, issue)
             IN  IF action = "reopened" THEN updateCommentsForIssue(c1, issue) ELSE c1

handleIssue(c, action, wireIssue) ==
    LET issue == fromIssue(wireIssue)
    IN  IF action = "closed" THEN removeIssue(c, issue)
        ELSE LET c1 == addOrUpdateIssue(c, issue)
             IN  IF ~c1.thrown /\ action = "reopened"
                 THEN [c1 EXCEPT !.ticks = Append(@, issue)]
                 ELSE c1

\* Mutant: the comment is applied before its parent issue is upserted.
handleComment_CommentFirst(c, action, wireIssue, wireComment) ==
    LET translated == fromIssue(wireIssue)
        issue == IF translated = Undefined THEN EmptyObject ELSE translated
        namespace == IF HasKey(issue) THEN issue.metadata.namespace ELSE UndefinedString
        name == IF HasKey(issue) THEN issue.metadata.name ELSE UndefinedString
        issueNumber == IF HasKey(issue) THEN issue.metadata.number ELSE UndefinedNumber
        comment == fromComment(issueNumber, name, namespace, wireComment)
        c1 == IF action = "deleted" THEN removeComment(c, issueNumber, comment)
              ELSE addOrUpdateComment(c, issueNumber, comment)
    IN  addOrUpdateIssue(c1, issue)

handleComment(c, action, wireIssue, wireComment) ==
    LET translated == fromIssue(wireIssue)
        issue == IF translated = Undefined THEN EmptyObject ELSE translated
        namespace == IF HasKey(issue) THEN issue.metadata.namespace ELSE UndefinedString
        name == IF HasKey(issue) THEN issue.metadata.name ELSE UndefinedString
        issueNumber == IF HasKey(issue) THEN issue.metadata.number ELSE UndefinedNumber
        comment == fromComment(issueNumber, name, namespace, wireComment)
        c1 == addOrUpdateIssue(c, issue)
    IN  IF c1.thrown THEN c1
        ELSE IF action = "deleted" THEN removeComment(c1, issueNumber, comment)
        ELSE addOrUpdateComment(c1, issueNumber, comment)

\* Mutant: the default case returns after logging, before res.end().
handleGithubEvent_DefaultReturns(c, req) ==
    LET event == req.headers.event
        action == req.body.action
        issue == req.body.issue
        comment == req.body.comment
    IN  CASE event = "issues" ->
                Emit(handleIssue(c, action, issue), "response", "end", Undefined)
          [] event = "issue_comment" ->
                Emit(handleComment(c, action, issue, comment), "response", "end", Undefined)
          [] OTHER -> Emit(c, "log", "error", Undefined)

\* res.end() is recorded in the trace after whatever the dispatch emitted;
\* an exception of the dispatch skips it and goes to next(err).
handleGithubEvent(c, req) ==
    LET event == req.headers.event
        action == req.body.action
        issue == req.body.issue
        comment == req.body.comment
        c1 == CASE event = "issues" -> handleIssue(c, action, issue)
                [] event = "issue_comment" -> handleComment(c, action, issue, comment)
                [] OTHER -> Emit(c, "log", "error", Undefined)
    IN  IF c1.thrown THEN Emit(c1, "response", "error", Undefined)
        ELSE Emit(c1, "response", "end", Undefined)


----------------------------------------------------------------------------
(* Journals service: what is applied when an upstream fetch returns *)

RECURSIVE applyComments(_, _, _)
applyComments(c, number, list) ==
    IF list = <<>> \/ c.thrown THEN c
    ELSE applyComments(
            addOrUpdateComment(c, number, fromComment(number, "garden", "foo", Head(list))),
            number, Tail(list))

RECURSIVE applyIssues(_, _)
applyIssues(c, list) ==
    IF list = <<>> \/ c.thrown THEN c
    ELSE applyIssues(addOrUpdateIssue(c, fromIssue(Head(list))), Tail(list))

\* Result sets of the upstream tracker: at most one entry per id / number.
CommentLists ==
    {l \in UNION {[1 .. n -> WireComments] : n \in 0 .. MaxCommentId} :
        \A i, j \in 1 .. Len(l) : i < j => l[i].id < l[j].id}

IssueLists ==
    {l \in UNION {[1 .. n -> WireIssues] : n \in 0 .. MaxNumber} :
        \A i, j \in 1 .. Len(l) : i < j => l[i].number < l[j].number}

----------------------------------------------------------------------------
(* The callbacks of the process *)

Events == {"issues", "issue_comment", "ping"}

PayloadsOf(event) ==
    CASE event = "issues" -> IssuesPayloads
      [] event = "issue_comment" -> CommentPayloads
      [] OTHER -> OtherPayloads

\* The x-hub-signature headers tried for a raw body: none, and the signature
\* of the body under each secret.
SignaturesFor(raw) == {<<>>} \cup {createHubSignature(s, raw) : s \in Secrets}

Request(event, signature, raw) ==
    [headers |-> [event |-> event, signature |-> signature], raw |-> raw]

NoRequest == Request("", <<>>, <<>>)

Context ==
    [comments |-> comments, crashed |-> crashed, fetches |-> fetches,
     issues |-> issues, thrown |-> FALSE, ticks |-> ticks, trace |-> <<>>]

Commit(c, op, req, status) ==
    /\ issues' = c.issues
    /\ comments' = c.comments
    /\ ticks' = c.ticks
    /\ fetches' = c.fetches
    /\ crashed' = c.crashed
    /\ last' = [op |-> op, req |-> req, status |-> status, trace |-> c.trace]
    /\ UNCHANGED <<webhookSecret, load, subscriber>>

Running == ~crashed /\ ticks = <<>>

\* POST /webhook: the route verifies the signature over the raw body while
\* parsing it, and calls the handler only when that did not throw.
Webhook(req) ==
    /\ Running
    /\ LET verdict == verifyHubSignature(req, req.raw)
       IN  IF verdict # "ok"
           THEN Commit(Context, "webhook", req, verdict)
           ELSE LET c == handleGithubEvent(
                            Context, [body |-> ParseJson(req.raw), headers |-> req.headers])
                IN  /\ Len(c.fetches) + Len(c.ticks) <= MaxFetches
                    /\ Commit(c, "webhook", req, IF c.thrown THEN "Error" ELSE "ok")

\* The callback handleIssue passed to process.nextTick. It runs when the
\* handler that scheduled it has returned and before any other callback, so
\* its record continues the request and the trace of that delivery.
NextTick ==
    /\ ~crashed
    /\ ticks # <<>>
    /\ Commit(updateCommentsForIssue(
                  [Context EXCEPT !.ticks = Tail(@), !.trace = last.trace], Head(ticks)),
              "nextTick", last.req, "ok")

RemoveAt(seq, i) == SubSeq(seq, 1, i - 1) \o SubSeq(seq, i + 1, Len(seq))

\* loadIssueComments: the upstream fetch returned a list of comments.
CommentsLoaded(i, list) ==
    /\ Running
    /\ i \in 1 .. Len(fetches)
    /\ Commit(applyComments(
                  Emit([Context EXCEPT !.fetches = RemoveAt(@, i)],
                       "fetched", "comments", [list |-> list, number |-> fetches[i]]),
                  fetches[i], list),
              "commentsLoaded", NoRequest, "ok")

\* Mutant: the promise has no catch, and the rejection ends the process.
CommentsFailed_Unhandled(i) ==
    /\ Running
    /\ i \in 1 .. Len(fetches)
    /\ Commit([Context EXCEPT !.fetches = RemoveAt(@, i), !.crashed = TRUE],
              "commentsFailed", NoRequest, "ok")

\* loadIssueComments: the upstream fetch failed; the handler's catch logs it.
CommentsFailed(i) ==
    /\ Running
    /\ i \in 1 .. Len(fetches)
    /\ Commit(Emit([Context EXCEPT !.fetches = RemoveAt(@, i)],
                   "log", "error", [number |-> fetches[i]]),
              "commentsFailed", NoRequest, "ok")

\* Mutant: the result set is applied on top of what was cached before the load.
LoadStart_NoReset ==
    /\ Running
    /\ load = "idle"
    /\ load' = "fetching"
    /\ last' = [op |-> "loadStart", req |-> NoRequest, status |-> "ok", trace |-> <<>>]
    /\ UNCHANGED <<webhookSecret, issues, comments, ticks, fetches, crashed, subscriber>>

\* loadOpenIssues: resets the cache and starts the upstream search.
LoadStart ==
    /\ Running
    /\ load = "idle"
    /\ load' = "fetching"
    /\ LET c == reset(Context)
       IN  /\ issues' = c.issues
           /\ comments' = c.comments
           /\ last' = [op |-> "loadStart", req |-> NoRequest, status |-> "ok",
                       trace |-> c.trace]
    /\ UNCHANGED <<webhookSecret, ticks, fetches, crashed, subscriber>>

\* loadOpenIssues: the search returned the open issues.
LoadDone(list) ==
    /\ Running
    /\ load = "fetching"
    /\ load' = "idle"
    /\ LET c == applyIssues(Emit(Context, "fetched", "issues", [list |-> list]), list)
       IN  /\ issues' = c.issues
           /\ comments' = c.comments
           /\ last' = [op |-> "loadDone", req |-> NoRequest, status |-> "ok",
                       trace |-> c.trace]
    /\ UNCHANGED <<webhookSecret, ticks, fetches, crashed, subscriber>>

\* Mutant: the failure arrives after a part of the result set was applied.
LoadFailed_Partial ==
    /\ Running
    /\ load = "fetching"
    /\ load' = "idle"
    /\ \E list \in IssueLists :
         LET c == applyIssues(Context, list)
         IN  /\ issues' = c.issues
             /\ comments' = c.comments
    /\ last' = [op |-> "loadFailed", req |-> NoRequest, status |-> "UpstreamFetchError",
                trace |-> <<>>]
    /\ UNCHANGED <<webhookSecret, ticks, fetches, crashed, subscriber>>

\* loadOpenIssues: the search failed; the rejection goes to the caller.
LoadFailed ==
    /\ Running
    /\ load = "fetching"
    /\ load' = "idle"
    /\ last' = [op |-> "loadFailed", req |-> NoRequest, status |-> "UpstreamFetchError",
                trace |-> <<>>]
    /\ UNCHANGED <<webhookSecret, issues, comments, ticks, fetches, crashed, subscriber>>

Init ==
    /\ webhookSecret \in {NotConfigured, "k1"}
    /\ issues = {}
    /\ comments = {}
    /\ ticks = <<>>
    /\ fetches = <<>>
    /\ load = "idle"
    /\ crashed = FALSE
    /\ subscriber = "ok"
    /\ last = [op |-> "init", req |-> NoRequest, status |-> "ok", trace |-> <<>>]

Next ==
    \/ \E event \in Events : \E payload \in PayloadsOf(event) :
         \E signature \in SignaturesFor(Stringify(payload)) :
            Webhook(Request(event, signature, Stringify(payload)))
    \/ NextTick
    \/ \E i \in 1 .. MaxFetches : \E list \in CommentLists : CommentsLoaded(i, list)
    \/ \E i \in 1 .. MaxFetches : CommentsFailed(i)
    \/ LoadStart
    \/ \E list \in IssueLists : LoadDone(list)
    \/ LoadFailed

Spec == Init /\ [][Next]_vars

\* The same process with a listener on the cache's emitter that throws.
InitSubscriber ==
    /\ webhookSecret \in {NotConfigured, "k1"}
    /\ issues = {}
    /\ comments = {}
    /\ ticks = <<>>
    /\ fetches = <<>>
    /\ load = "idle"
    /\ crashed = FALSE
    /\ subscriber = "throws"
    /\ last = [op |-> "init", req |-> NoRequest, status |-> "ok", trace |-> <<>>]

SpecSubscriber == InitSubscriber /\ [][Next]_vars


----------------------------------------------------------------------------
(* verifyHubSignature on its own: one call per behaviour, over every secret, *)
(* raw body and header of the model, the header also mutated byte by byte.   *)

Mutations(signature) ==
    {SubSeq(signature, 1, Len(signature) - 1), Append(signature, 48)}
    \cup {[signature EXCEPT ![i] = IF @ = 48 THEN 49 ELSE 48] : i \in 1 .. Len(signature)}

VerifyHeaders(raw) ==
    {<<>>}
    \cup {createHubSignature(s, b) : s \in Secrets, b \in RawBodies}
    \cup UNION {Mutations(createHubSignature(s, raw)) : s \in Secrets}

Verify(req) ==
    /\ last.op = "init"
    /\ last' = [op |-> "verify", req |-> req, status |-> verifyHubSignature(req, req.raw),
                trace |-> <<>>]
    /\ UNCHANGED <<webhookSecret, issues, comments, ticks, fetches, load, crashed, subscriber>>

InitVerify ==
    /\ webhookSecret \in {NotConfigured} \cup Secrets
    /\ issues = {}
    /\ comments = {}
    /\ ticks = <<>>
    /\ fetches = <<>>
    /\ load = "idle"
    /\ crashed = FALSE
    /\ subscriber = "ok"
    /\ last = [op |-> "init", req |-> NoRequest, status |-> "ok", trace |-> <<>>]

NextVerify ==
    \E raw \in RawBodies : \E signature \in VerifyHeaders(raw) :
        Verify(Request("issues", signature, raw))

SpecVerify == InitVerify /\ [][NextVerify]_vars

----------------------------------------------------------------------------
(* Claims *)

\* What a callback record l (last, or last' in a step) says about itself.
Verified(l) == l.op = "webhook" /\ l.status = "ok"
EventOf(l) == l.req.headers.event
BodyOf(l) == ParseJson(l.req.raw)
ActionOf(l) == BodyOf(l).action
IssueOf(l) == fromIssue(BodyOf(l).issue)

\* A verified delivery of the event whose issue names a tracked resource.
Delivery(l, event) ==
    Verified(l) /\ EventOf(l) = event /\ IssueOf(l) # Undefined

OfKind(trace, kind) == SelectSeq(trace, LAMBDA e : e.kind = kind)
Types(trace, kind) == {OfKind(trace, kind)[n].type : n \in 1 .. Len(OfKind(trace, kind))}
SameKey(set, issue) == {r \in set : IssueKey(r) = IssueKey(issue)}
ResponseEnd == Entry("response", "end", Undefined)

\* The signature verifyHubSignature expects for the request of a callback.
Expected(req) == createHubSignature(webhookSecret, req.raw)

Unverified(req) ==
    \/ webhookSecret = NotConfigured
    \/ req.headers.signature = <<>>
    \/ req.headers.signature # Expected(req)

\* C1: a webhook delivery whose secret is not configured, whose x-hub-signature
\* header is absent or whose header differs from the signature of the raw body
\* is rejected with an error, leaves the cached issues and comments as they
\* were, emits no event and schedules nothing.
C1_UnverifiedDeliveryRejected ==
    [][(last'.op = "webhook" /\ Unverified(last'.req))
          => /\ last'.status \in {"InternalServerError", "Forbidden"}
             /\ issues' = issues
             /\ comments' = comments
             /\ ticks' = ticks
             /\ fetches' = fetches
             /\ last'.trace = <<>>]_vars

\* A delivery with a wrong signature asking to close a cached issue was rejected.
C1_Witness ==
    /\ last.op = "webhook"
    /\ last.status = "Forbidden"
    /\ last.req.headers.signature # <<>>
    /\ last.req.headers.event = "issues"
    /\ ParseJson(last.req.raw).action = "closed"
    /\ fromIssue(ParseJson(last.req.raw).issue) \in issues

\* C2: with a secret configured, verifyHubSignature succeeds exactly when the
\* header is "sha1=" followed by the hex HMAC of the raw body under the secret;
\* a header of another length is rejected, and so is the signature of any other
\* body or under any other secret.
C2_VerifyIffSignatureMatches ==
    (last.op = "verify" /\ webhookSecret # NotConfigured)
        => LET H == last.req.headers.signature
           IN  /\ (last.status = "ok") <=> (H = Expected(last.req))
               /\ Len(H) # Len(Expected(last.req)) => last.status # "ok"
               /\ last.status = "ok"
                    => \A s \in Secrets, b \in RawBodies :
                          H = createHubSignature(s, b)
                              => (s = webhookSecret /\ b = last.req.raw)

\* A header one byte longer than the expected signature, equal on its prefix, was rejected.
C2_Witness ==
    /\ last.op = "verify"
    /\ webhookSecret # NotConfigured
    /\ last.req.headers.signature = Append(Expected(last.req), 48)
    /\ last.status = "Forbidden"

\* A header that is the valid signature was accepted.
C2_WitnessAccepted ==
    /\ last.op = "verify"
    /\ webhookSecret # NotConfigured
    /\ last.req.headers.signature = Expected(last.req)
    /\ last.status = "ok"

\* C3: verifyHubSignature throws InternalServerError whenever no secret is
\* configured, whatever the header; with a secret it throws Forbidden when the
\* header is absent and when it mismatches, and nothing when it matches.
C3_ErrorKinds ==
    last.op = "verify"
        => LET H == last.req.headers.signature
           IN  /\ last.status \in {"ok", "InternalServerError", "Forbidden"}
               /\ webhookSecret = NotConfigured => last.status = "InternalServerError"
               /\ (webhookSecret # NotConfigured /\ H = <<>>) => last.status = "Forbidden"
               /\ (webhookSecret # NotConfigured /\ H # <<>> /\ H # Expected(last.req))
                    => last.status = "Forbidden"
               /\ (webhookSecret # NotConfigured /\ H = Expected(last.req))
                    => last.status = "ok"

\* No secret configured and no header sent: the configuration error won.
C3_Witness ==
    /\ last.op = "verify"
    /\ webhookSecret = NotConfigured
    /\ last.req.headers.signature = <<>>
    /\ last.status = "InternalServerError"


\* C4: the cache never holds two issues with the same (namespace, name, number);
\* and right after a delivery that upserts issue i (an issues event other than
\* closed, or an issue_comment event) the cache holds exactly one record with
\* i's key, and it equals i.
C4_OneIssuePerKey ==
    /\ \A i, j \in getIssues : IssueKey(i) = IssueKey(j) => i = j
    /\ (Delivery(last, "issues") /\ ActionOf(last) # "closed")
          => SameKey(getIssues, IssueOf(last)) = {IssueOf(last)}
    /\ Delivery(last, "issue_comment")
          => SameKey(getIssues, IssueOf(last)) = {IssueOf(last)}

\* An edit replaced the cached record of its key while another issue was cached.
C4_Witness ==
    /\ Delivery(last, "issues")
    /\ ActionOf(last) = "edited"
    /\ OfKind(last.trace, "issue") = <<Entry("issue", "MODIFIED", IssueOf(last))>>
    /\ Cardinality(getIssues) = 2

\* C5: an upsert of issue i by an issues delivery emits exactly one ADDED when
\* i's key was absent, exactly one MODIFIED when the stored record differed from
\* i, and nothing when it equalled i (the cache then stays as it was); so the
\* same delivery processed twice in a row emits nothing the second time and
\* leaves the cache as the first left it.
C5_UpsertEvents ==
    [][(Delivery(last', "issues") /\ ActionOf(last') # "closed")
          => LET i == IssueOf(last')
                 stored == SameKey(issues, i)
                 emitted == OfKind(last'.trace, "issue")
             IN  /\ stored = {} => emitted = <<Entry("issue", "ADDED", i)>>
                 /\ (stored # {} /\ i \notin stored)
                        => emitted = <<Entry("issue", "MODIFIED", i)>>
                 /\ i \in stored => (emitted = <<>> /\ issues' = issues)
                 /\ (Verified(last) /\ last'.req = last.req)
                        => /\ emitted = <<>>
                           /\ issues' = issues
                           /\ comments' = comments]_vars

\* The same edit was delivered again and emitted nothing.
C5_Witness ==
    /\ Delivery(last, "issues")
    /\ ActionOf(last) = "edited"
    /\ IssueOf(last) \in issues
    /\ last.trace = <<ResponseEnd>>

\* C6: a closed delivery for a key that is not cached leaves the cached issues
\* and comments as they were and emits nothing; for a cached key it emits
\* exactly one DELETED issue event, carrying the record that was stored.
C6_RemoveIssue ==
    [][(Delivery(last', "issues") /\ ActionOf(last') = "closed")
          => LET stored == SameKey(issues, IssueOf(last'))
             IN  /\ stored = {}
                    => /\ issues' = issues
                       /\ comments' = comments
                       /\ last'.trace = <<ResponseEnd>>
                 /\ stored # {}
                    => /\ Cardinality(stored) = 1
                       /\ \A r \in stored :
                            last'.trace = <<Entry("issue", "DELETED", r), ResponseEnd>>]_vars

\* A closed delivery found nothing to remove while another issue and a comment were cached.
C6_Witness ==
    /\ Delivery(last, "issues")
    /\ ActionOf(last) = "closed"
    /\ last.trace = <<ResponseEnd>>
    /\ issues # {}
    /\ comments # {}

\* A closed delivery removed a record that differed from the one in the payload.
C6_WitnessDeleted ==
    /\ Delivery(last, "issues")
    /\ ActionOf(last) = "closed"
    /\ Len(last.trace) = 2
    /\ last.trace[1].type = "DELETED"
    /\ last.trace[1].object # IssueOf(last)

\* An issues delivery with action closed removes and never upserts; with any
\* other action it upserts and never removes.
ClosedRemovesOthersUpsert ==
    Delivery(last', "issues")
          => LET i == IssueOf(last')
                 stored == SameKey(issues, i)
                 types == Types(last'.trace, "issue")
             IN  IF ActionOf(last') = "closed"
                 THEN /\ SameKey(issues', i) = {}
                      /\ types \subseteq {"DELETED"}
                      /\ stored # {}
                            => /\ Cardinality(issues') = Cardinality(issues) - 1
                               /\ types = {"DELETED"}
                 ELSE /\ SameKey(issues', i) = {i}
                      /\ types \subseteq {"ADDED", "MODIFIED"}
                      /\ Cardinality(issues') >= Cardinality(issues)

\* A cached issue was closed and is gone, another one is still cached.
ClosedRemoved ==
    /\ Delivery(last, "issues")
    /\ ActionOf(last) = "closed"
    /\ Types(last.trace, "issue") = {"DELETED"}
    /\ Cardinality(issues) = 1

\* An issue that the last delivery closed is still absent after the next
\* callback, unless that callback is an issues delivery, the end of a
\* reconciliation load or of a comment backfill.
ClosedStaysAbsent ==
    (Delivery(last, "issues") /\ ActionOf(last) = "closed"
            /\ ~(Verified(last') /\ EventOf(last') = "issues")
            /\ last'.op \notin {"loadDone", "commentsLoaded"})
          => SameKey(issues', IssueOf(last)) = {}

\* C7: an issues delivery with action closed removes the issue and never
\* upserts it, any other action upserts and never removes; and so, apart from
\* reconciliation and backfill, an issue whose latest issue event was closed
\* is not in the cache.
C7_ClosedIssuesEvicted ==
    [][ClosedRemovesOthersUpsert /\ ClosedStaysAbsent]_vars


\* C8: an issues delivery with action reopened upserts the issue and ends the
\* response without starting a fetch or emitting a comment event; an upstream
\* comment fetch starts only in the nextTick callback that follows such an
\* acknowledged delivery, with the issue upserted; and comment events of a
\* backfill are emitted only when its fetch has returned.
C8_AckBeforeBackfill ==
    [][/\ (Verified(last') /\ EventOf(last') = "issues" /\ ActionOf(last') = "reopened")
            => /\ fetches' = fetches
               /\ last'.trace = OfKind(last'.trace, "issue") \o <<ResponseEnd>>
               /\ ticks' = <<IssueOf(last')>>
               /\ IssueOf(last') # Undefined => IssueOf(last') \in issues'
       /\ fetches' # fetches /\ Len(fetches') >= Len(fetches)
            => /\ last'.op = "nextTick"
               /\ Delivery(last, "issues")
               /\ ActionOf(last) = "reopened"
               /\ IssueOf(last) \in issues
               /\ fetches' = Append(fetches, IssueOf(last).metadata.number)
               /\ last'.trace = OfKind(last.trace, "issue") \o <<ResponseEnd>>
                                  \o OfKind(last'.trace, "fetch")
       /\ OfKind(last'.trace, "fetch") # <<>> => last'.op = "nextTick"
       /\ OfKind(last'.trace, "comment") # <<>>
            => \/ last'.op = "commentsLoaded"
               \/ Verified(last') /\ EventOf(last') = "issue_comment"]_vars

\* The nextTick callback of a reopened delivery has started the fetch.
C8_Witness ==
    /\ last.op = "nextTick"
    /\ OfKind(last.trace, "fetch") # <<>>
    /\ fetches # <<>>

\* The comment of an issue_comment delivery, and the cached comments with its key.
CommentOf(l) ==
    fromComment(IssueOf(l).metadata.number, "foo", "garden", BodyOf(l).comment)
SameCommentKey(set, k) ==
    {r \in set : CommentKey(r.metadata.number, r) = CommentKey(k.metadata.number, k)}

\* C10: an issue_comment delivery upserts the parent issue first and mutates
\* the comment second, so its issue event precedes its comment event; action
\* deleted removes the comment with the key (issueNumber, commentId), emitting
\* DELETED if it was cached, and never upserts it; any other action upserts the
\* comment and never removes it. The cache contents are stated for deliveries
\* whose issue the translator accepts, the order and kinds of events for all.
C10_CommentAfterParent ==
    [][(Verified(last') /\ EventOf(last') = "issue_comment")
          => LET trace == last'.trace
             IN  /\ trace = OfKind(trace, "issue") \o OfKind(trace, "comment")
                              \o <<ResponseEnd>>
                 /\ Len(OfKind(trace, "issue")) <= 1
                 /\ Len(OfKind(trace, "comment")) <= 1
                 /\ Types(trace, "issue") \subseteq {"ADDED", "MODIFIED"}
                 /\ Types(trace, "comment") \subseteq
                        IF ActionOf(last') = "deleted" THEN {"DELETED"}
                        ELSE {"ADDED", "MODIFIED"}
                 /\ IssueOf(last') # Undefined
                      => LET i == IssueOf(last')
                             k == CommentOf(last')
                             stored == SameCommentKey(comments, k)
                         IN  /\ SameKey(issues', i) = {i}
                             /\ IF ActionOf(last') = "deleted"
                                THEN /\ SameCommentKey(comments', k) = {}
                                     /\ comments' = comments \ stored
                                     /\ stored = {} => OfKind(trace, "comment") = <<>>
                                     /\ \A r \in stored :
                                          OfKind(trace, "comment")
                                             = <<Entry("comment", "DELETED", r)>>
                                ELSE /\ SameCommentKey(comments', k) = {k}
                                     /\ comments \ stored \subseteq comments']_vars

\* Deleting a cached comment of an issue that was not cached: ADDED for the
\* issue, then DELETED for the comment.
C10_Witness ==
    /\ Delivery(last, "issue_comment")
    /\ ActionOf(last) = "deleted"
    /\ Len(last.trace) = 3
    /\ last.trace[1].kind = "issue"
    /\ last.trace[2] = Entry("comment", "DELETED", last.trace[2].object)
    /\ last.trace[2].kind = "comment"


\* The issue of a reopened delivery that found its key absent and reports
\* comments, seen from the record l of its nextTick callback.
ReopenedAbsent(l) ==
    /\ l.op = "nextTick"
    /\ EventOf(l) = "issues"
    /\ ActionOf(l) = "reopened"
    /\ IssueOf(l) # Undefined
    /\ Entry("issue", "ADDED", IssueOf(l)) \in {l.trace[n] : n \in 1 .. Len(l.trace)}
    /\ IssueOf(l).data.comments > 0

\* The comments a returned fetch delivered, as the callback record l lists them.
Fetched(l) ==
    LET e == OfKind(l.trace, "fetched")[1]
    IN  {fromComment(e.object.number, "garden", "foo", e.object.list[n]) :
            n \in 1 .. Len(e.object.list)}

\* A reopened delivery for an issue that is not cached is answered with an
\* ADDED issue event and schedules the backfill for the next tick.
ReopenedAdds ==
    (Delivery(last', "issues") /\ ActionOf(last') = "reopened"
            /\ SameKey(issues, IssueOf(last')) = {})
          => /\ OfKind(last'.trace, "issue") = <<Entry("issue", "ADDED", IssueOf(last'))>>
             /\ IssueOf(last') \in issues'
             /\ ticks' = <<IssueOf(last')>>

\* When the fetch of such a delivery returns right after it was started, every
\* fetched comment is answered with an ADDED comment event and is cached.
BackfillAdds ==
    (ReopenedAbsent(last) /\ fetches = <<IssueOf(last).metadata.number>>
            /\ last'.op = "commentsLoaded")
          => \A k \in Fetched(last') :
                /\ Entry("comment", "ADDED", k)
                      \in {last'.trace[n] : n \in 1 .. Len(last'.trace)}
                /\ k \in comments'

\* C9: a reopened delivery for an issue that is not cached and reports
\* comments re-adds the issue with an ADDED event, and when its comment fetch
\* returns, an ADDED comment event is emitted for each fetched comment and
\* each fetched comment is in the cache.
C9_ReopenedBackfill ==
    [][ReopenedAdds /\ BackfillAdds]_vars


\* C11: a verified delivery whose x-github-event is neither issues nor
\* issue_comment leaves the cached issues and comments as they were, emits no
\* change event, schedules no backfill and starts no fetch; it is logged and
\* the response is ended without an error.
C11_UnhandledEventIgnored ==
    [][(Verified(last') /\ EventOf(last') \notin {"issues", "issue_comment"})
          => /\ issues' = issues
             /\ comments' = comments
             /\ ticks' = ticks
             /\ fetches' = fetches
             /\ crashed' = crashed
             /\ last'.trace = <<Entry("log", "error", Undefined), ResponseEnd>>]_vars

\* A verified ping was acknowledged while an issue and a comment were cached.
C11_Witness ==
    /\ Verified(last)
    /\ EventOf(last) = "ping"
    /\ last.trace[Len(last.trace)] = ResponseEnd
    /\ issues # {}
    /\ comments # {}


\* A verified issues or issue_comment delivery whose issue the translator
\* does not accept.
UntrackedDelivery(l) ==
    /\ Verified(l)
    /\ EventOf(l) \in {"issues", "issue_comment"}
    /\ IssueOf(l) = Undefined

\* The delivery of an untracked issue leaves the cache as it was, emits
\* nothing and ends the response.
UntrackedIgnored ==
    UntrackedDelivery(last')
        => /\ issues' = issues
           /\ comments' = comments
           /\ last'.trace = <<ResponseEnd>>

\* What the delivery of an untracked issue left to run on the next tick does
\* not throw.
UntrackedNoError ==
    (UntrackedDelivery(last) /\ last'.op = "nextTick") => ~crashed'

\* C12: an issue for which the translator finds no tracked resource never
\* reaches the cache: an issues or issue_comment delivery that carries it
\* changes neither the cached issues nor the cached comments, emits no event
\* and is not an error.
C12_UntrackedDropped ==
    [][UntrackedIgnored /\ UntrackedNoError]_vars


Loaded(l) ==
    LET list == OfKind(l.trace, "fetched")[1].object.list
    IN  {fromIssue(list[n]) : n \in 1 .. Len(list)} \ {Undefined}

Committed(e, cachedIssues, cachedComments) ==
    CASE e.kind = "issue" /\ e.type = "DELETED" -> SameKey(cachedIssues, e.object) = {}
      [] e.kind = "issue" -> e.object \in cachedIssues
      [] e.kind = "comment" /\ e.type = "DELETED" ->
            SameCommentKey(cachedComments, e.object) = {}
      [] e.kind = "comment" -> e.object \in cachedComments
      [] OTHER -> TRUE

RECURSIVE Replays(_, _, _, _, _)
Replays(trace, I, K, J, L) ==
    IF trace = <<>> THEN I = J /\ K = L
    ELSE LET e == Head(trace)
             o == e.object
         IN  CASE e.kind = "issue" /\ e.type = "ADDED" ->
                    /\ SameKey(I, o) = {}
                    /\ Replays(Tail(trace), I \cup {o}, K, J, L)
               [] e.kind = "issue" /\ e.type = "MODIFIED" ->
                    /\ SameKey(I, o) # {}
                    /\ o \notin I
                    /\ Replays(Tail(trace), (I \ SameKey(I, o)) \cup {o}, K, J, L)
               [] e.kind = "issue" /\ e.type = "DELETED" ->
                    /\ o \in I
                    /\ Replays(Tail(trace), I \ {o}, K, J, L)
               [] e.kind = "comment" /\ e.type = "ADDED" ->
                    /\ SameCommentKey(K, o) = {}
                    /\ Replays(Tail(trace), I, K \cup {o}, J, L)
               [] e.kind = "comment" /\ e.type = "MODIFIED" ->
                    /\ SameCommentKey(K, o) # {}
                    /\ o \notin K
                    /\ Replays(Tail(trace), I, (K \ SameCommentKey(K, o)) \cup {o}, J, L)
               [] e.kind = "comment" /\ e.type = "DELETED" ->
                    /\ o \in K
                    /\ Replays(Tail(trace), I, K \ {o}, J, L)
               [] OTHER -> Replays(Tail(trace), I, K, J, L)

\* What the callback of a step emitted itself: a nextTick callback continues
\* the trace of its delivery.
Emitted ==
    IF last'.op = "nextTick"
    THEN SubSeq(last'.trace, Len(last.trace) + 1, Len(last'.trace))
    ELSE last'.trace

C17_NoOrphanComments ==
    \A k \in comments : \E i \in getIssues : i.metadata.number = k.metadata.number

\* A backfill added a comment while no issue was cached.
BackfillAfterClose ==
    /\ last.op = "commentsLoaded"
    /\ Types(last.trace, "comment") = {"ADDED"}
    /\ getIssues = {}


\* A verified issues delivery with action reopened whose translated issue
\* reports at least one comment.
Qualifying(l) ==
    /\ Delivery(l, "issues")
    /\ ActionOf(l) = "reopened"
    /\ IssueOf(l).data.comments > 0

\* C18: a comment fetch starts only in the nextTick callback of a verified
\* issues delivery with action reopened whose issue reports a comment count
\* above 0, and that callback starts exactly one, for the issue's number; the
\* callback of a reopened delivery with count 0 starts none, and no other
\* delivery schedules a callback.
C18_BackfillOnlyOnReopened ==
    [][/\ fetches' # fetches /\ Len(fetches') >= Len(fetches)
            => /\ last.op = "webhook"
               /\ last'.op = "nextTick"
               /\ Qualifying(last)
       /\ (last.op = "webhook" /\ Qualifying(last))
            => /\ last'.op = "nextTick"
               /\ fetches' = Append(fetches, IssueOf(last).metadata.number)
               /\ ticks' = <<>>
       /\ last'.op = "nextTick" /\ ~Qualifying(last) => fetches' = fetches
       /\ last'.op = "webhook"
            => /\ fetches' = fetches
               /\ ticks' # <<>>
                    => /\ Verified(last')
                       /\ EventOf(last') = "issues"
                       /\ ActionOf(last') = "reopened"
                       /\ Len(ticks') = 1]_vars

\* The callback of a reopened delivery for an issue without comments ran and
\* started no fetch.
C18_Witness ==
    /\ last.op = "nextTick"
    /\ ~crashed
    /\ IssueOf(last).data.comments = 0
    /\ fetches = <<>>


\* C19: a comment fetch that fails is logged and dropped: the callback leaves
\* the cached issues and comments as they were, emits no event, takes the
\* fetch off the ones in flight and does not end the process, so deliveries
\* are processed as before; when it fails right after it was started, the
\* reopened issue is cached as the delivery upserted it.
C19_FailedBackfillDropped ==
    [][last'.op = "commentsFailed"
          => /\ issues' = issues
             /\ comments' = comments
             /\ Len(last'.trace) = 1
             /\ last'.trace[1].kind = "log"
             /\ Len(fetches') = Len(fetches) - 1
             /\ ~crashed'
             /\ ticks' = <<>>
             /\ last'.status = "ok"
             /\ last.op = "nextTick" => IssueOf(last) \in issues']_vars

\* The fetch of a reopened issue failed right after it was started.
C19_Witness ==
    /\ last.op = "commentsFailed"
    /\ Cardinality(issues) = 1
    /\ comments = {}
    /\ fetches = <<>>
    /\ ~crashed


\* An issue that a delivery upserted while a load was in flight is cached when
\* the load's result set has been applied right after it. The handler treats
\* opened like every action that is neither closed nor reopened.
AddedDuringLoadStays ==
    (last'.op = "loadDone" /\ Delivery(last, "issues") /\ ActionOf(last) # "closed")
        => SameKey(getIssues', IssueOf(last)) # {}

\* An issue that a delivery closed while a load was in flight is not cached
\* when the load's result set has been applied right after it.
ClosedDuringLoadStaysAbsent ==
    (last'.op = "loadDone" /\ Delivery(last, "issues") /\ ActionOf(last) = "closed")
        => SameKey(getIssues', IssueOf(last)) = {}

\* C20: the effect of a delivery processed between the reset of a load and
\* the application of its result set is not undone by the load: an issue the
\* delivery closed is absent afterwards, also when the result set lists it,
\* and an issue the delivery added is present.
C20_WebhookDuringLoadKept ==
    [][AddedDuringLoadStays /\ ClosedDuringLoadStaysAbsent]_vars


====
